---- MODULE Spec2Model ----
(***************************************************************************)
(* Reservation-Bot: the in-memory restaurant store (dummyRestaurantDB),    *)
(* the two tool functions that read and write it, and the turn loop of     *)
(* ReservationAgentService.sendMessage that drives them.                   *)
(*                                                                         *)
(* JavaScript runs one callback at a time: the code between two awaits is  *)
(* one atomic step.  Every action below is one such stretch of code.       *)
(***************************************************************************)
EXTENDS Integers, Sequences, FiniteSets, TLC

VARIABLES
  availability,   \* dummyRestaurantDB.availability: date -> time -> partySize -> flag
  bookings,       \* dummyRestaurantDB.bookings: the log, in push order
  pc,             \* per conversation: where its sendMessage call is suspended
  turn,           \* per conversation: the locals of the sendMessage call in flight
  turns,          \* number of sendMessage calls started so far
  bookTally,      \* history: book_table calls of turns that ran to their end,
                  \* counted per arguments and per success
  last,           \* the latest direct tool call and its result (SpecStore only)
  app             \* the App component: its state, its service, its environment
                  \* (SpecApp only)

vars == <<availability, bookings, pc, turn, turns, bookTally, last, app>>

-----------------------------------------------------------------------------
(* Bounds of the model *)

\* sendMessage calls started in one run, over all conversations
MaxTurns == 2
\* tool-call requests carried by one model response
MaxToolCalls == 2
\* records the booking log may hold when tools are called directly (SpecStore)
MaxBooked == 2

\* The conversations (ReservationAgentService instances) sharing the store.
Convs == {"c1", "c2"}

-----------------------------------------------------------------------------
(* Optional values: undefined is the empty tuple, a present value v is <<v>> *)

Undefined == <<>>
Some(v) == <<v>>

-----------------------------------------------------------------------------
(* dummyRestaurantDB *)

Day_2024_08_01 ==
  ("18:00" :> (2 :> TRUE  @@ 4 :> TRUE))  @@
  ("18:30" :> (2 :> TRUE  @@ 4 :> FALSE)) @@
  ("19:00" :> (2 :> TRUE  @@ 4 :> TRUE))  @@
  ("19:30" :> (2 :> FALSE @@ 4 :> TRUE))  @@
  ("20:00" :> (2 :> TRUE  @@ 4 :> TRUE))  @@
  ("20:30" :> (2 :> TRUE  @@ 4 :> FALSE))

Day_2024_08_02 ==
  ("18:00" :> (2 :> TRUE @@ 4 :> TRUE)) @@
  ("18:30" :> (2 :> TRUE @@ 4 :> TRUE)) @@
  ("19:00" :> (2 :> TRUE @@ 4 :> TRUE)) @@
  ("19:30" :> (2 :> TRUE @@ 4 :> TRUE)) @@
  ("20:00" :> (2 :> TRUE @@ 4 :> TRUE)) @@
  ("20:30" :> (2 :> TRUE @@ 4 :> TRUE))

SeedAvailability ==
  ("2024-08-01" :> Day_2024_08_01) @@ ("2024-08-02" :> Day_2024_08_02)

\* The property order of a day object: `for (const slotTime in dayAvailability)`
\* visits the string keys in the order the literal wrote them.
SlotTimeOrder == <<"18:00", "18:30", "19:00", "19:30", "20:00", "20:30">>

-----------------------------------------------------------------------------
(* Tool arguments the model may send *)

Dates == {"2024-08-01", "2024-08-02", "2024-08-03"}
Times == {"17:00", "18:00", "18:30", "19:00", "19:15", "19:30", "20:00",
          "20:30", "21:00"}
PartySizes == {2, 4, 6}

\* new Date(`2000-01-01T${time}:00`).getTime(), in minutes after midnight
\* of the dummy date (the code only ever uses differences of two of them).
ClockHM(time) ==
  CASE time = "17:00" -> <<17, 0>>
    [] time = "18:00" -> <<18, 0>>
    [] time = "18:30" -> <<18, 30>>
    [] time = "19:00" -> <<19, 0>>
    [] time = "19:15" -> <<19, 15>>
    [] time = "19:30" -> <<19, 30>>
    [] time = "20:00" -> <<20, 0>>
    [] time = "20:30" -> <<20, 30>>
    [] time = "21:00" -> <<21, 0>>

getTime(time) == ClockHM(time)[1] * 60 + ClockHM(time)[2]

Abs(x) == IF x < 0 THEN -x ELSE x

\* Math.abs((slotDateTime.getTime() - requestedTime.getTime()) / (1000 * 60))
diffMinutes(slotTime, time) == Abs(getTime(slotTime) - getTime(time))

\* `dayAvailability[slotTime]?.[partySize]` as a condition: a missing time or
\* a missing party size reads undefined, which is falsy.
SlotFlag(day, slotTime, partySize) ==
  /\ slotTime \in DOMAIN day
  /\ partySize \in DOMAIN day[slotTime]
  /\ day[slotTime][partySize]

-----------------------------------------------------------------------------
(* check_restaurant_availability *)

\* `if (diffMinutes <= 30)`
NearbyWindow == 30

\* Faulty variant: the window taken exclusive of the 30th minute.
WithinWindow_Exclusive(slotTime, time) == diffMinutes(slotTime, time) < NearbyWindow

WithinWindow(slotTime, time) == diffMinutes(slotTime, time) <= NearbyWindow

\* The for..in loop: every key of the day within the window is pushed, in
\* property order, tagged with its own flag for the party size.
ScanDay(day, time, partySize) ==
  LET near == SelectSeq(SlotTimeOrder,
                        LAMBDA s : s \in DOMAIN day /\ WithinWindow(s, time))
  IN  [i \in 1..Len(near) |->
         [time |-> near[i], isAvailable |-> SlotFlag(day, near[i], partySize)]]

\* One entry put into an already sorted list, behind the entries that do not
\* compare greater (Array.prototype.sort is stable).
InsertByTime(slot, sorted) ==
  LET keep == {i \in 1..Len(sorted) : getTime(sorted[i].time) <= getTime(slot.time)}
      n    == IF keep = {} THEN 0 ELSE CHOOSE i \in keep : \A j \in keep : j <= i
  IN  SubSeq(sorted, 1, n) \o <<slot>> \o SubSeq(sorted, n + 1, Len(sorted))

RECURSIVE SortByTime(_)
\* availableSlots.sort((a, b) => timeA - timeB)
SortByTime(slots) ==
  IF slots = <<>> THEN <<>>
  ELSE InsertByTime(slots[Len(slots)], SortByTime(SubSeq(slots, 1, Len(slots) - 1)))

\* Faulty variant: the filter left out, so unavailable slots stay listed.
ActuallyAvailable_KeepsAll(slots) == slots

\* availableSlots.filter(s => s.isAvailable)
ActuallyAvailable(slots) == SelectSeq(slots, LAMBDA s : s.isAvailable)

\* Faulty variant: an available slot answered with the nearby list instead
\* of the requested slot alone.
AvailabilityResult_ListsNeighbours(time, requestedSlotAvailable, actuallyAvailableSlots) ==
  IF requestedSlotAvailable
  THEN [available |-> TRUE, availableSlots |-> Some(actuallyAvailableSlots),
        message |-> "Slot is available."]
  ELSE IF Len(actuallyAvailableSlots) > 0
  THEN [available |-> FALSE,
        availableSlots |-> Some(actuallyAvailableSlots),
        message |-> "Requested slot unavailable, but other nearby slots are available."]
  ELSE [available |-> FALSE, availableSlots |-> Undefined,
        message |-> "No suitable slots found within 30 minutes of your requested time."]

\* Faulty variant: the length test left out, so an empty list is returned
\* where there should be none.
AvailabilityResult_EmptyList(time, requestedSlotAvailable, actuallyAvailableSlots) ==
  IF requestedSlotAvailable
  THEN [available |-> TRUE,
        availableSlots |-> Some(<<[time |-> time, isAvailable |-> TRUE]>>),
        message |-> "Slot is available."]
  ELSE [available |-> FALSE,
        availableSlots |-> Some(actuallyAvailableSlots),
        message |-> "Requested slot unavailable, but other nearby slots are available."]

\* Lines 88 to 94: the result, from the flag of the requested slot and the
\* nearby slots that are available.
AvailabilityResult(time, requestedSlotAvailable, actuallyAvailableSlots) ==
  IF requestedSlotAvailable
  THEN [available |-> TRUE,
        availableSlots |-> Some(<<[time |-> time, isAvailable |-> TRUE]>>),
        message |-> "Slot is available."]
  ELSE IF Len(actuallyAvailableSlots) > 0
  THEN [available |-> FALSE,
        availableSlots |-> Some(actuallyAvailableSlots),
        message |-> "Requested slot unavailable, but other nearby slots are available."]
  ELSE [available |-> FALSE, availableSlots |-> Undefined,
        message |-> "No suitable slots found within 30 minutes of your requested time."]

\* The body of check_restaurant_availability after its delay, on the store db.
check_restaurant_availability(db, date, time, partySize) ==
  IF date \notin DOMAIN db
  THEN [available |-> FALSE, availableSlots |-> Undefined,
        message |-> "No availability found for this date."]
  ELSE
    LET dayAvailability == db[date]
        requestedSlotAvailable == SlotFlag(dayAvailability, time, partySize)
        availableSlots == SortByTime(ScanDay(dayAvailability, time, partySize))
        actuallyAvailableSlots == ActuallyAvailable(availableSlots)
    IN  AvailabilityResult(time, requestedSlotAvailable, actuallyAvailableSlots)

-----------------------------------------------------------------------------
(* book_table *)

\* What Math.random().toString(36) may return, as its characters: "0." and
\* the base-36 digits of the fraction.  A double prints about eleven digits,
\* and a short fraction (0.5 is "0.i") prints fewer.
RandomStrings ==
  { <<"0", ".", "a", "7", "k", "2", "m", "9", "x", "0", "q", "b", "4">>,
    <<"0", ".", "a", "7", "k", "2", "m", "9", "x", "0", "q", "z", "1">>,
    <<"0", ".", "i">> }

SubstrStart == 2
SubstrLength == 9

\* String.prototype.substr(start, length)
substr(str, start, length) ==
  SubSeq(str, start + 1, IF Len(str) < start + length THEN Len(str) ELSE start + length)

UpperChar(ch) ==
  CASE ch = "a" -> "A" [] ch = "b" -> "B" [] ch = "i" -> "I" [] ch = "k" -> "K"
    [] ch = "m" -> "M" [] ch = "q" -> "Q" [] ch = "x" -> "X" [] ch = "z" -> "Z"
    [] OTHER -> ch

toUpperCase(str) == [i \in 1..Len(str) |-> UpperChar(str[i])]

\* `RES-${Math.random().toString(36).substr(2, 9).toUpperCase()}`
ConfirmationNumber(random) ==
  <<"R", "E", "S", "-">> \o toUpperCase(substr(random, SubstrStart, SubstrLength))

\* Faulty variant: the guard tests that the slot exists but not its flag.
SlotRefused_IgnoresFlag(db, date, time, partySize) ==
  \/ date \notin DOMAIN db
  \/ time \notin DOMAIN db[date]
  \/ partySize \notin DOMAIN db[date][time]

\* Faulty variant: the flag is the one the slot had before the delay of the
\* first call, not the one in the store now.
SlotRefused_StaleFlag(db, date, time, partySize) ==
  \/ date \notin DOMAIN db
  \/ time \notin DOMAIN db[date]
  \/ partySize \notin DOMAIN db[date][time]
  \/ ~SeedAvailability[date][time][partySize]

\* The guard of book_table: a missing day, time or party size, or a false flag.
SlotRefused(db, date, time, partySize) ==
  \/ date \notin DOMAIN db
  \/ time \notin DOMAIN db[date]
  \/ partySize \notin DOMAIN db[date][time]
  \/ ~db[date][time][partySize]

\* Faulty variant: the flag is left as it was.
MarkUnavailable_Forgets(db, date, time, partySize) == db

\* Faulty variant: every party size of the time is marked, not the one booked.
MarkUnavailable_WholeTime(db, date, time, partySize) ==
  [db EXCEPT ![date][time] = [p \in DOMAIN @ |-> FALSE]]

\* dummyRestaurantDB.availability[date][time][partySize] = false
MarkUnavailable(db, date, time, partySize) ==
  [db EXCEPT ![date][time][partySize] = FALSE]

\* Faulty variant: the new record takes the place of the log.
PushBooking_Overwrites(log, date, time, partySize, confirmation) ==
  <<[date |-> date, time |-> time, partySize |-> partySize,
     confirmation |-> confirmation]>>

\* dummyRestaurantDB.bookings.push({ date, time, partySize, confirmation })
PushBooking(log, date, time, partySize, confirmation) ==
  Append(log, [date |-> date, time |-> time, partySize |-> partySize,
               confirmation |-> confirmation])

\* The body of book_table after its delay: the result it returns and the
\* store it leaves, on the store (db, log) and the value Math.random drew.
book_table(db, log, date, time, partySize, random) ==
  IF SlotRefused(db, date, time, partySize)
  THEN [result |-> [success |-> FALSE, confirmationNumber |-> Undefined,
                    message |-> "The requested slot is no longer available or never existed."],
        availability |-> db,
        bookings |-> log]
  ELSE [result |-> [success |-> TRUE,
                    confirmationNumber |-> Some(ConfirmationNumber(random)),
                    message |-> "Booking successful."],
        availability |-> MarkUnavailable(db, date, time, partySize),
        bookings |-> PushBooking(log, date, time, partySize,
                                 ConfirmationNumber(random))]

-----------------------------------------------------------------------------
(* Direct calls of the two tool functions, one after the other *)

\* Keys a direct book_table call may name: the 19:00 to 20:00 slots of
\* 2024-08-01 (seeded true and seeded false), an unseeded time, an unseeded
\* party size and an unseeded date.
DirectBookArgs ==
  {<<"2024-08-01", t, p>> : t \in {"19:00", "19:30", "20:00"}, p \in {2, 4}}
    \cup {<<"2024-08-01", "21:00", 2>>, <<"2024-08-01", "19:00", 6>>,
          <<"2024-08-03", "19:00", 2>>}

NoCall ==
  [tool |-> "none", date |-> "", time |-> "", partySize |-> 0,
   result |-> [available |-> FALSE, availableSlots |-> Undefined, message |-> ""]]

\* Faulty variant: a check that finds the requested slot open holds it, by
\* clearing its flag.
DirectCheck_HoldsSlot(date, time, partySize) ==
  LET result == check_restaurant_availability(availability, date, time, partySize)
  IN  /\ last' = [tool |-> "check_restaurant_availability", date |-> date,
                  time |-> time, partySize |-> partySize, result |-> result]
      /\ availability' = IF result.available
                         THEN [availability EXCEPT ![date][time][partySize] = FALSE]
                         ELSE availability
      /\ UNCHANGED <<bookings, pc, turn, turns, bookTally, app>>

\* check_restaurant_availability(_, date, time, partySize, _) run to its end.
DirectCheck(date, time, partySize) ==
  /\ last' = [tool |-> "check_restaurant_availability", date |-> date,
              time |-> time, partySize |-> partySize,
              result |-> check_restaurant_availability(availability, date, time,
                                                       partySize)]
  /\ UNCHANGED <<availability, bookings, pc, turn, turns, bookTally, app>>

\* book_table(_, date, time, partySize) run to its end.
DirectBook(date, time, partySize, random) ==
  /\ Len(bookings) < MaxBooked
  /\ LET r == book_table(availability, bookings, date, time, partySize, random)
     IN  /\ availability' = r.availability
         /\ bookings' = r.bookings
         /\ last' = [tool |-> "book_table", date |-> date, time |-> time,
                     partySize |-> partySize, result |-> r.result]
  /\ UNCHANGED <<pc, turn, turns, bookTally, app>>

-----------------------------------------------------------------------------
(* ReservationAgentService.sendMessage *)

\* The keys of the toolFunctions object literal.
toolFunctions == {"check_restaurant_availability", "book_table"}

\* Property names every object literal inherits from Object.prototype.
ObjectPrototypeKeys ==
  {"constructor", "hasOwnProperty", "isPrototypeOf", "propertyIsEnumerable",
   "toLocaleString", "toString", "valueOf", "__proto__", "__defineGetter__",
   "__defineSetter__", "__lookupGetter__", "__lookupSetter__"}

\* `if (this.toolFunctions[functionName])`: a property read, own or inherited,
\* tested for truthiness.
RegistryHit(functionName) ==
  functionName \in toolFunctions \cup ObjectPrototypeKeys

\* Names a model response may put in a tool call.
ToolNames ==
  {"check_restaurant_availability", "book_table", "cancel_reservation", "toString"}

\* Arguments a model response may put in a tool call: a slot seeded true, the
\* slot of the spec's booking example (seeded true), a slot seeded false, an
\* unseeded time, an unseeded party size and an unseeded date.
TurnArgs ==
  { [date |-> "2024-08-01", time |-> "19:00", partySize |-> 2],
    [date |-> "2024-08-01", time |-> "19:30", partySize |-> 4],
    [date |-> "2024-08-01", time |-> "19:30", partySize |-> 2],
    [date |-> "2024-08-01", time |-> "21:00", partySize |-> 2],
    [date |-> "2024-08-01", time |-> "19:00", partySize |-> 6],
    [date |-> "2024-08-03", time |-> "19:00", partySize |-> 2] }

\* The first call of a response: either tool on any of these arguments, a
\* name that is no tool, or either tool with no args at all (args is an
\* optional field of a function call).
RequestedCalls ==
  [name : toolFunctions, args : TurnArgs]
    \cup [name : ToolNames \ toolFunctions,
          args : {[date |-> "2024-08-01", time |-> "19:00", partySize |-> 2]}]
    \cup [name : toolFunctions, args : {Undefined}]

\* Calls a response may carry behind its first one.
FurtherCalls ==
  { [name |-> "book_table",
     args |-> [date |-> "2024-08-01", time |-> "19:00", partySize |-> 2]],
    [name |-> "cancel_reservation",
     args |-> [date |-> "2024-08-01", time |-> "19:00", partySize |-> 2]] }

\* chatResponse.functionCalls when it is not empty: 1..MaxToolCalls calls.
\* The Model Client numbers the calls of a response; the number is fc.id.
ToolCallBatches ==
  UNION { { [i \in 1..n |-> [id |-> i,
                             name |-> (IF i = 1 THEN first ELSE rest[i - 1]).name,
                             args |-> (IF i = 1 THEN first ELSE rest[i - 1]).args]]
            : first \in RequestedCalls, rest \in [1..(n - 1) -> FurtherCalls] }
          : n \in 1..MaxToolCalls }

\* toolResponseResult.functionCalls: the calls a follow-up response may
\* carry, none or a further book_table call.
FollowupBatches ==
  { <<>>,
    <<[id |-> 1, name |-> "book_table",
       args |-> [date |-> "2024-08-01", time |-> "19:00", partySize |-> 2]]>> }

\* chatResponse.text: absent, empty, or some text (a string is the sequence
\* of its pieces, so '' is <<>>).
ResponseTexts == {Undefined, Some(<<>>), Some(<<"Your table is booked.">>)}

\* `chatResponse.text || ''`
TextOrEmpty(text) == IF text = Undefined THEN <<>> ELSE text[1]

\* error.message of a failed Model Client call.
ErrorMessages ==
  { <<"got status: ", "400 Bad Request", ". ", "requested entity was not found">>,
    <<"Requested entity was not found.">>,
    <<"fetch failed">> }

\* String.prototype.includes, on the pieces of a message.
includes(message, piece) == \E i \in 1..Len(message) : message[i] = piece

\* error.message of the TypeError raised by `functionArgs.restaurant_name`
\* when fc.args is undefined.
ArgsTypeError ==
  <<"Cannot read properties of undefined (reading 'restaurant_name')">>

\* The catch block of sendMessage: the object it returns.
CatchResult(message) ==
  IF includes(message, "400 Bad Request")
       /\ includes(message, "requested entity was not found")
  THEN [text |-> <<"I encountered an issue processing your request. Please try again or re-select your API key if prompted.">>,
        functionCalls |-> Undefined, toolResponses |-> Undefined]
  ELSE [text |-> <<"Sorry, I encountered an error: ">> \o message,
        functionCalls |-> Undefined, toolResponses |-> Undefined]

\* The locals of a sendMessage call before its first await returns.
\*   requested      chatResponse.functionCalls.length
\*   fc             the call the loop is at
\*   functionCalls, toolResponses   the two trace arrays
\*   sent           the functionResponse parts sent to the Model Client
\*   modelCalls     this.chat.sendMessage calls made
\*   toolRuns       tool handlers run to their end
\*   racing         history: the other conversations that were suspended in
\*                  book_table's delay on the same key when this turn's
\*                  book_table resumed
\*   failedCall     history: which this.chat.sendMessage call rejected
\*                  (1 the initial request, 2 the follow-up, 0 none)
\*   responseText   history: the text field of the Model Client response
\*                  that ended the turn
\*   followupRequested   history: toolResponseResult.functionCalls.length
\*   ret            the value sendMessage resolved to
FreshTurn ==
  [requested |-> 0, fc |-> Undefined, functionCalls |-> <<>>,
   toolResponses |-> <<>>, sent |-> <<>>, modelCalls |-> 0, toolRuns |-> 0,
   racing |-> {}, failedCall |-> 0, responseText |-> Undefined,
   followupRequested |-> 0, ret |-> Undefined]

\* Faulty variant: every requested call is pushed to the trace.
PushedFunctionCalls_All(batch) ==
  [i \in 1..Len(batch) |->
     [sender |-> "tool", functionCall |-> [name |-> batch[i].name, args |-> batch[i].args]]]

\* functionCalls.push({ ..., functionCall: { name, args } }): the entries the
\* loop has pushed when sendMessage returns.  Both branches of the loop body
\* return, so the loop body runs for the first call only.
PushedFunctionCalls(batch) ==
  <<[sender |-> "tool", functionCall |-> [name |-> batch[1].name, args |-> batch[1].args]]>>

\* toolResponses.push({ ..., toolResponse: { name, result } })
PushToolResponse(toolResponses, functionName, toolResult) ==
  Append(toolResponses,
         [sender |-> "tool", toolResponse |-> [name |-> functionName, result |-> toolResult]])

\* contents: [{ functionResponse: { id: fc.id, name: fc.name, response: { result } } }]
FunctionResponse(fc, toolResult) ==
  [id |-> fc.id, name |-> fc.name, response |-> [result |-> toolResult]]

\* The payload of a call that names no registered tool.
ErrorResult(functionName) ==
  [error |-> <<"Function ", functionName, " not found.">>]

\* The payload of a registry hit that is neither of the two tools.
NotHandledResult(functionName) ==
  [error |-> <<"Function ", functionName, " not handled.">>]

\* The rest of the loop body once toolResult is known: record it, send it to
\* the Model Client and await the follow-up.
RoundTrip(t, fc, toolResult) ==
  [t EXCEPT !.toolResponses = PushToolResponse(@, fc.name, toolResult),
            !.sent = Append(@, FunctionResponse(fc, toolResult)),
            !.modelCalls = @ + 1]

\* sendMessage(userMessage) up to `await this.chat.sendMessage({ message })`.
SendMessage(c) ==
  /\ pc[c] \in {"idle", "returned"}
  /\ turns < MaxTurns
  /\ turns' = turns + 1
  /\ turn' = [turn EXCEPT ![c] = [FreshTurn EXCEPT !.modelCalls = 1]]
  /\ pc' = [pc EXCEPT ![c] = "awaitModel"]
  /\ UNCHANGED <<availability, bookings, bookTally, last, app>>

\* Faulty variant: a response without text is answered with a stock phrase.
ModelAnswers_StockPhrase(c) ==
  /\ pc[c] = "awaitModel"
  /\ \E text \in ResponseTexts :
       turn' = [turn EXCEPT ![c].responseText = text,
                            ![c].ret =
                  Some([text |-> IF TextOrEmpty(text) = <<>>
                                 THEN <<"How can I help you?">>
                                 ELSE TextOrEmpty(text),
                        functionCalls |-> Some(<<>>),
                        toolResponses |-> Some(<<>>)])]
  /\ pc' = [pc EXCEPT ![c] = "returned"]
  /\ UNCHANGED <<availability, bookings, turns, bookTally, last, app>>

\* The first response carries no tool call: return its text.
ModelAnswers(c) ==
  /\ pc[c] = "awaitModel"
  /\ \E text \in ResponseTexts :
       turn' = [turn EXCEPT ![c].responseText = text,
                            ![c].ret =
                  Some([text |-> TextOrEmpty(text), functionCalls |-> Some(<<>>),
                        toolResponses |-> Some(<<>>)])]
  /\ pc' = [pc EXCEPT ![c] = "returned"]
  /\ UNCHANGED <<availability, bookings, turns, bookTally, last, app>>

\* The first response carries tool calls: the loop body for the first of
\* them, up to its next await (the tool's delay, or the follow-up request).
\* Evaluating the arguments of the tool call raises when fc.args is
\* undefined; nothing in the loop catches it, so the catch block of
\* sendMessage returns.
ModelRequestsTools(c) ==
  /\ pc[c] = "awaitModel"
  /\ \E batch \in ToolCallBatches :
       LET fc == batch[1]
           t  == [turn[c] EXCEPT !.requested = Len(batch), !.fc = Some(fc),
                                 !.functionCalls = PushedFunctionCalls(batch)]
       IN  IF RegistryHit(fc.name)
           THEN IF fc.name \in toolFunctions
                THEN IF fc.args = Undefined
                     THEN /\ turn' = [turn EXCEPT ![c] =
                                        [t EXCEPT !.ret = Some(CatchResult(ArgsTypeError))]]
                          /\ pc' = [pc EXCEPT ![c] = "returned"]
                     ELSE /\ turn' = [turn EXCEPT ![c] = t]
                          /\ pc' = [pc EXCEPT ![c] = "awaitTool"]
                ELSE /\ turn' = [turn EXCEPT ![c] =
                                   RoundTrip(t, fc, NotHandledResult(fc.name))]
                     /\ pc' = [pc EXCEPT ![c] = "awaitFollowup"]
           ELSE /\ turn' = [turn EXCEPT ![c] = RoundTrip(t, fc, ErrorResult(fc.name))]
                /\ pc' = [pc EXCEPT ![c] = "awaitFollowup"]
  /\ UNCHANGED <<availability, bookings, turns, bookTally, last, app>>

\* check_restaurant_availability resumes after its delay, and the loop body
\* runs on to the follow-up request.
CheckReturns(c) ==
  /\ pc[c] = "awaitTool"
  /\ turn[c].fc[1].name = "check_restaurant_availability"
  /\ LET fc == turn[c].fc[1]
         toolResult == check_restaurant_availability(availability, fc.args.date,
                                                     fc.args.time, fc.args.partySize)
     IN  turn' = [turn EXCEPT ![c] =
                    RoundTrip([turn[c] EXCEPT !.toolRuns = @ + 1], fc, toolResult)]
  /\ pc' = [pc EXCEPT ![c] = "awaitFollowup"]
  /\ UNCHANGED <<availability, bookings, turns, bookTally, last, app>>

\* The other conversations suspended in book_table's delay on c's key.
InDelayOnSameKey(c) ==
  {d \in Convs \ {c} : /\ pc[d] = "awaitTool"
                       /\ turn[d].fc[1].name = "book_table"
                       /\ turn[d].fc[1].args = turn[c].fc[1].args}

\* book_table resumes after its delay, and the loop body runs on to the
\* follow-up request.
BookReturns(c) ==
  /\ pc[c] = "awaitTool"
  /\ turn[c].fc[1].name = "book_table"
  /\ \E random \in RandomStrings :
       LET fc == turn[c].fc[1]
           r  == book_table(availability, bookings, fc.args.date, fc.args.time,
                            fc.args.partySize, random)
       IN  /\ availability' = r.availability
           /\ bookings' = r.bookings
           /\ turn' = [turn EXCEPT ![c] =
                         RoundTrip([turn[c] EXCEPT !.toolRuns = @ + 1,
                                                   !.racing = InDelayOnSameKey(c)],
                                   fc, r.result)]
           /\ bookTally' = [bookTally EXCEPT ![fc.args][r.result.success] = @ + 1]
  /\ pc' = [pc EXCEPT ![c] = "awaitFollowup"]
  /\ UNCHANGED <<turns, last, app>>

\* Faulty variant: the calls a follow-up response carries are taken up, and
\* the first of them is executed.
FollowupAnswers_RunsCarriedCalls(c) ==
  /\ pc[c] = "awaitFollowup"
  /\ \E text \in ResponseTexts, carried \in FollowupBatches :
       IF carried = <<>>
       THEN /\ turn' = [turn EXCEPT ![c].responseText = text,
                                    ![c].ret =
                          Some([text |-> TextOrEmpty(text),
                                functionCalls |-> Some(turn[c].functionCalls),
                                toolResponses |-> Some(turn[c].toolResponses)])]
            /\ pc' = [pc EXCEPT ![c] = "returned"]
       ELSE /\ turn' = [turn EXCEPT ![c].responseText = text,
                                    ![c].followupRequested = Len(carried),
                                    ![c].fc = Some(carried[1])]
            /\ pc' = [pc EXCEPT ![c] = "awaitTool"]
  /\ UNCHANGED <<availability, bookings, turns, bookTally, last, app>>

\* The follow-up response arrives: return its text and the two traces.
\* Whatever calls the follow-up response carries are not looked at.
FollowupAnswers(c) ==
  /\ pc[c] = "awaitFollowup"
  /\ \E text \in ResponseTexts, carried \in FollowupBatches :
       turn' = [turn EXCEPT ![c].responseText = text,
                            ![c].followupRequested = Len(carried),
                            ![c].ret =
                  Some([text |-> TextOrEmpty(text),
                        functionCalls |-> Some(turn[c].functionCalls),
                        toolResponses |-> Some(turn[c].toolResponses)])]
  /\ pc' = [pc EXCEPT ![c] = "returned"]
  /\ UNCHANGED <<availability, bookings, turns, bookTally, last, app>>

\* Faulty variant: a rejected Model Client call is made again.
ModelCallFails_Retries(c) ==
  /\ pc[c] \in {"awaitModel", "awaitFollowup"}
  /\ turn[c].failedCall = 0
  /\ turn' = [turn EXCEPT ![c].failedCall = turn[c].modelCalls,
                          ![c].modelCalls = @ + 1]
  /\ pc' = pc
  /\ UNCHANGED <<availability, bookings, turns, bookTally, last, app>>

\* Faulty variant: the catch block waits for something that never settles.
ModelCallFails_NeverSettles(c) ==
  /\ pc[c] \in {"awaitModel", "awaitFollowup"}
  /\ turn' = [turn EXCEPT ![c].failedCall = turn[c].modelCalls]
  /\ pc' = [pc EXCEPT ![c] = "awaitNothing"]
  /\ UNCHANGED <<availability, bookings, turns, bookTally, last, app>>

\* Faulty variant: a rejected follow-up undoes the booking of the turn.
ModelCallFails_RollsBack(c) ==
  /\ pc[c] \in {"awaitModel", "awaitFollowup"}
  /\ \E message \in ErrorMessages :
       turn' = [turn EXCEPT ![c].failedCall = turn[c].modelCalls,
                            ![c].ret = Some(CatchResult(message))]
  /\ pc' = [pc EXCEPT ![c] = "returned"]
  /\ IF /\ pc[c] = "awaitFollowup"
        /\ turn[c].toolRuns = 1
        /\ turn[c].fc[1].name = "book_table"
        /\ turn[c].sent[1].response.result.success
     THEN LET a == turn[c].fc[1].args
              code == turn[c].sent[1].response.result.confirmationNumber[1]
              Kept(record) == record.confirmation # code
          IN  /\ availability' =
                   [availability EXCEPT ![a.date][a.time][a.partySize] = TRUE]
              /\ bookings' = SelectSeq(bookings, Kept)
     ELSE UNCHANGED <<availability, bookings>>
  /\ UNCHANGED <<turns, bookTally, last, app>>

\* A Model Client call rejects: the catch block returns a text.
ModelCallFails(c) ==
  /\ pc[c] \in {"awaitModel", "awaitFollowup"}
  /\ \E message \in ErrorMessages :
       turn' = [turn EXCEPT ![c].failedCall = turn[c].modelCalls,
                            ![c].ret = Some(CatchResult(message))]
  /\ pc' = [pc EXCEPT ![c] = "returned"]
  /\ UNCHANGED <<availability, bookings, turns, bookTally, last, app>>

-----------------------------------------------------------------------------
(* App: key selection, the chat log, and the turns it starts *)

\* process.env.API_KEY: not defined, the empty string, or a key.
ApiKeys == {Undefined, Some(<<>>), Some(<<"AIza-key">>)}

\* `!apiKey` is false: the variable is defined and not the empty string.
KeyPresent(apiKey) == apiKey # Undefined /\ apiKey[1] # <<>>

\* What the input field may hold when handleSend runs.
Inputs ==
  { <<>>, <<" ", " ">>, <<"\t", "U+00A0", "\r", "\n">>, <<" ", "h", "i", " ">> }

\* The characters String.prototype.trim strips: the WhiteSpace and
\* LineTerminator code points of ECMAScript.  Those that a string of this
\* module cannot hold are written by their code point.
Whitespace ==
  {" ", "\t", "\n", "\r", "\f", "U+000B", "U+00A0", "U+1680", "U+2000",
   "U+2001", "U+2002", "U+2003", "U+2004", "U+2005", "U+2006", "U+2007",
   "U+2008", "U+2009", "U+200A", "U+2028", "U+2029", "U+202F", "U+205F",
   "U+3000", "U+FEFF"}

RECURSIVE trimStart(_)
trimStart(s) ==
  IF s # <<>> /\ Head(s) \in Whitespace THEN trimStart(Tail(s)) ELSE s

RECURSIVE trimEnd(_)
trimEnd(s) ==
  IF s # <<>> /\ s[Len(s)] \in Whitespace
  THEN trimEnd(SubSeq(s, 1, Len(s) - 1)) ELSE s

\* String.prototype.trim
trim(s) == trimEnd(trimStart(s))

\* Faulty variant: a message is dispatched while one is being answered.
CanSend_IgnoresLoading(input, isLoading) == trim(input) # <<>>

\* ChatInput.handleSend: `input.trim() && !isLoading`
CanSend(input, isLoading) == trim(input) # <<>> /\ ~isLoading

\* The state of the App component before its mount effect has run.
\*   aistudio         window.aistudio offers hasSelectedApiKey, openSelectKey
\*   apiKey           process.env.API_KEY
\*   keyCheck         where checkApiKey of the mount effect is: "notRun",
\*                    "pending" (suspended at `await hasSelectedApiKey()`),
\*                    "settled" (run to its end) or "rejected" (the await
\*                    threw: an unhandled rejection, the rest never runs)
\*   hasApiKey, isLoading, messages   the component's state
\*   agentServiceRef  agentServiceRef.current
\*   instances        the ReservationAgentService objects constructed
\*   keyClicks        clicks on 'Select API Key' so far
\*   dialogs          handleSelectApiKey calls suspended at openSelectKey
\*   sends            App.sendMessage calls so far
\*   inFlight         per service, the App.sendMessage calls suspended at
\*                    `await agentServiceRef.current.sendMessage(text)`
\*   initFailed       history: a constructor call has thrown
Unmounted(aistudio, apiKey) ==
  [aistudio |-> aistudio, apiKey |-> apiKey, keyCheck |-> "notRun",
   hasApiKey |-> FALSE, isLoading |-> FALSE, messages |-> <<>>,
   agentServiceRef |-> Undefined, instances |-> {}, keyClicks |-> 0,
   dialogs |-> 0, sends |-> 0, inFlight |-> [c \in Convs |-> 0],
   initFailed |-> FALSE]

\* setMessages(prev => [...prev, { sender: 'system', text }]); in the texts
\* below a backquote of the source is written as an apostrophe.
SystemMessage(a, text) ==
  [a EXCEPT !.messages = Append(@, [sender |-> "system", text |-> text])]

NotInitializedText ==
  <<"Reservation agent not initialized. Please refresh or select API key.">>

\* error.message of the Error thrown by getApiKey.
ApiKeyErrorText == <<"API_KEY is not defined in environment variables.">>

\* The object `new ReservationAgentService()` returns: a conversation that
\* has not been constructed before.
NewInstance(a) == CHOOSE c \in Convs \ a.instances : TRUE

\* Faulty variant: the key is not read at construction, so the constructor
\* succeeds without one.
initializeAgentService_KeyNotRead(a) ==
  [a EXCEPT !.agentServiceRef = Some(NewInstance(a)),
            !.instances = @ \cup {NewInstance(a)}]

\* initializeAgentService: the constructor calls initChat, which calls
\* getApiKey, which throws when the key is missing; the catch appends a
\* system message and leaves agentServiceRef.current as it was.
initializeAgentService(a) ==
  IF KeyPresent(a.apiKey)
  THEN [a EXCEPT !.agentServiceRef = Some(NewInstance(a)),
                 !.instances = @ \cup {NewInstance(a)}]
  ELSE [SystemMessage(a, <<"Error initializing agent: ">> \o ApiKeyErrorText
                           \o <<". Please check your API key or environment setup.">>)
          EXCEPT !.initFailed = TRUE]

\* The model has as many conversations as Convs: a constructor call that
\* would succeed needs one that is not constructed yet.
CanConstruct(a) == KeyPresent(a.apiKey) => a.instances # Convs

\* The mount effect: checkApiKey, run once, up to its first await.  With
\* window.aistudio that is `await window.aistudio.hasSelectedApiKey()`;
\* without it the fallback branch has no await and runs to its end.
Mount ==
  /\ app.keyCheck = "notRun"
  /\ IF app.aistudio
     THEN app' = [app EXCEPT !.keyCheck = "pending"]
     ELSE LET a == [app EXCEPT !.keyCheck = "settled"]
          IN  /\ CanConstruct(app)
              /\ app' = IF KeyPresent(app.apiKey)
                        THEN initializeAgentService([a EXCEPT !.hasApiKey = TRUE])
                        ELSE SystemMessage(a,
                               <<"Warning: Running in an environment without 'window.aistudio' and 'process.env.API_KEY' is not set. Please ensure 'API_KEY' is configured.">>)
  /\ UNCHANGED <<availability, bookings, pc, turn, turns, bookTally, last>>

\* hasSelectedApiKey resolves and checkApiKey runs on to its end, whatever
\* clicks, dialogs and sends have happened since it was suspended.
KeyCheckResolves ==
  /\ app.keyCheck = "pending"
  /\ \E keySelected \in BOOLEAN :
       LET a == [app EXCEPT !.keyCheck = "settled", !.hasApiKey = keySelected]
       IN  IF keySelected
           THEN /\ CanConstruct(app)
                /\ app' = initializeAgentService(a)
           ELSE app' = SystemMessage(a,
                         <<"Welcome! Please select your API key to start using the Reservation Agent.">>)
  /\ UNCHANGED <<availability, bookings, pc, turn, turns, bookTally, last>>

\* hasSelectedApiKey rejects: the await is in no try, so checkApiKey ends
\* there with an unhandled rejection and the component's state is untouched.
KeyCheckRejects ==
  /\ app.keyCheck = "pending"
  /\ app' = [app EXCEPT !.keyCheck = "rejected"]
  /\ UNCHANGED <<availability, bookings, pc, turn, turns, bookTally, last>>

\* handleSelectApiKey up to `await window.aistudio.openSelectKey()`; the
\* button is rendered while hasApiKey is false, from the first render on.
\* Every click may end in a constructor call, so a run has as many clicks
\* as the model has conversations.
ClickSelectKey ==
  /\ ~app.hasApiKey
  /\ app.keyClicks < Cardinality(Convs)
  /\ LET a == [app EXCEPT !.keyClicks = @ + 1]
     IN  app' = IF app.aistudio
                THEN [a EXCEPT !.dialogs = @ + 1]
                ELSE SystemMessage(a,
                       <<"API key selection is not available in this environment. Ensure 'process.env.API_KEY' is set.">>)
  /\ UNCHANGED <<availability, bookings, pc, turn, turns, bookTally, last>>

\* openSelectKey resolves: the environment may now hold a key; the service
\* is constructed anew.
SelectKeyResolves ==
  /\ app.dialogs > 0
  /\ \E apiKey \in {app.apiKey, Some(<<"AIza-key">>)} :
       LET a == [app EXCEPT !.dialogs = @ - 1, !.apiKey = apiKey,
                            !.hasApiKey = TRUE]
       IN  /\ CanConstruct(a)
           /\ app' = SystemMessage(initializeAgentService(a),
                       <<"API key selected. You can now chat with the Reservation Agent.">>)
  /\ UNCHANGED <<availability, bookings, pc, turn, turns, bookTally, last>>

\* openSelectKey rejects.
SelectKeyRejects ==
  /\ app.dialogs > 0
  /\ app' = SystemMessage([app EXCEPT !.dialogs = @ - 1],
                          <<"Failed to select API key. Please try again.">>)
  /\ UNCHANGED <<availability, bookings, pc, turn, turns, bookTally, last>>

\* ChatInput.handleSend and, through onSendMessage, App.sendMessage up to
\* `await agentServiceRef.current.sendMessage(text)`.  ChatInput is rendered
\* while hasApiKey is true.  Without a service only a system message is
\* appended; with one, the user's message is appended, isLoading is set and
\* the service's sendMessage runs up to its first await.
HandleSend ==
  /\ app.hasApiKey
  /\ app.sends < MaxTurns
  /\ \E input \in Inputs :
       /\ CanSend(input, app.isLoading)
       /\ LET a == [app EXCEPT !.sends = @ + 1]
          IN  IF app.agentServiceRef = Undefined
              THEN /\ app' = SystemMessage(a, NotInitializedText)
                   /\ UNCHANGED <<pc, turn, turns>>
              ELSE LET c == app.agentServiceRef[1]
                   IN  /\ app' = [a EXCEPT
                                    !.messages = Append(@, [sender |-> "user", text |-> input]),
                                    !.isLoading = TRUE,
                                    !.inFlight[c] = @ + 1]
                       /\ turns' = turns + 1
                       /\ turn' = [turn EXCEPT ![c] = [FreshTurn EXCEPT !.modelCalls = 1]]
                       /\ pc' = [pc EXCEPT ![c] = "awaitModel"]
  /\ UNCHANGED <<availability, bookings, bookTally, last>>

\* What the service's sendMessage settled with is a rejection.  Every await
\* of sendMessage is inside its try and its catch block returns, so no
\* value of ret is one.
Rejected(ret) == "thrown" \in DOMAIN ret

\* Lines 139 to 162: the messages built from a response, one per traced
\* tool call, one per traced tool result, and the agent's.  Of these
\* entries the log of the model keeps the sender and the kind, not the text.
NewMessages(response) ==
  (IF response.functionCalls # Undefined
   THEN [i \in 1..Len(response.functionCalls[1]) |->
           [sender |-> "tool", kind |-> "Tool Call"]]
   ELSE <<>>)
  \o (IF response.toolResponses # Undefined
      THEN [i \in 1..Len(response.toolResponses[1]) |->
              [sender |-> "tool", kind |-> "Tool Response"]]
      ELSE <<>>)
  \o <<[sender |-> "agent", kind |-> "text"]>>

\* Lines 164 to 185: the catch block of App.sendMessage.
AppCatch(a, message) ==
  IF includes(message, "Requested entity was not found.")
  THEN [SystemMessage(a, <<"An API error occurred. This might be due to an invalid or unbilled API key. Please select your API key again.">>)
          EXCEPT !.hasApiKey = FALSE]
  ELSE SystemMessage(a, <<"An unexpected error occurred: ">> \o message)

\* Faulty variant: without the finally block, isLoading is reset at the end
\* of the try body only when the response carried a trace.
AppResumes_ResetInTryOnly(c) ==
  /\ app.inFlight[c] > 0
  /\ pc[c] = "returned"
  /\ LET ret == turn[c].ret[1]
         a   == [app EXCEPT !.inFlight[c] = @ - 1]
     IN  app' = IF Rejected(ret)
                THEN AppCatch(a, ret.thrown)
                ELSE [a EXCEPT !.messages = @ \o NewMessages(ret),
                               !.isLoading = (ret.functionCalls = Undefined)]
  /\ pc' = [pc EXCEPT ![c] = "idle"]
  /\ turn' = [turn EXCEPT ![c] = FreshTurn]
  /\ UNCHANGED <<availability, bookings, turns, bookTally, last>>

\* App.sendMessage resumes when the service's sendMessage has settled:
\* the try body or the catch block, then `finally { setIsLoading(false) }`.
\* The settled call and its locals are released with it.
AppResumes(c) ==
  /\ app.inFlight[c] > 0
  /\ pc[c] = "returned"
  /\ LET ret == turn[c].ret[1]
         a   == [app EXCEPT !.inFlight[c] = @ - 1, !.isLoading = FALSE]
     IN  app' = IF Rejected(ret)
                THEN AppCatch(a, ret.thrown)
                ELSE [a EXCEPT !.messages = @ \o NewMessages(ret)]
  /\ pc' = [pc EXCEPT ![c] = "idle"]
  /\ turn' = [turn EXCEPT ![c] = FreshTurn]
  /\ UNCHANGED <<availability, bookings, turns, bookTally, last>>

-----------------------------------------------------------------------------
(* Specifications *)

Init ==
  /\ availability = SeedAvailability
  /\ bookings = <<>>
  /\ pc = [c \in Convs |-> "idle"]
  /\ turn = [c \in Convs |-> FreshTurn]
  /\ turns = 0
  /\ bookTally = [a \in TurnArgs |-> [s \in BOOLEAN |-> 0]]
  /\ last = NoCall
  /\ app = Unmounted(TRUE, Some(<<"AIza-key">>))

\* The program: conversations running turns against the shared store.
Next ==
  \E c \in Convs :
    \/ SendMessage(c)
    \/ ModelAnswers(c)
    \/ ModelRequestsTools(c)
    \/ CheckReturns(c)
    \/ BookReturns(c)
    \/ FollowupAnswers(c)
    \/ ModelCallFails(c)

Spec == Init /\ [][Next]_vars

\* sendMessage of c is suspended in check_restaurant_availability's delay:
\* the states in which CheckReturns(c) is enabled.
CheckPending(c) ==
  /\ pc[c] = "awaitTool"
  /\ turn[c].fc[1].name = "check_restaurant_availability"

\* A step that resumes sendMessage of c from an await other than the delay
\* of check_restaurant_availability.
Resumes(c) ==
  \/ ModelAnswers(c) \/ ModelRequestsTools(c) \/ ModelCallFails(c)
  \/ BookReturns(c)
  \/ FollowupAnswers(c)

\* Every Model Client call and every tool execution eventually returns or
\* fails: a suspended sendMessage is eventually resumed.  The second
\* conjunct is weak fairness of CheckReturns(c), with its enabling
\* condition written out as CheckPending(c).
Settles(c) ==
  /\ WF_vars(Resumes(c))
  /\ ([]<>(~CheckPending(c)) \/ []<><<CheckReturns(c)>>_vars)

SpecSettling == Spec /\ \A c \in Convs : Settles(c)

\* The tool layer alone: the two tool functions called directly.
NextStore ==
  \/ \E date \in Dates, time \in Times, partySize \in PartySizes :
       DirectCheck(date, time, partySize)
  \/ \E a \in DirectBookArgs, random \in RandomStrings :
       DirectBook(a[1], a[2], a[3], random)

SpecStore == Init /\ [][NextStore]_vars

\* The App component in each environment it may be loaded in.
InitApp ==
  /\ availability = SeedAvailability
  /\ bookings = <<>>
  /\ pc = [c \in Convs |-> "idle"]
  /\ turn = [c \in Convs |-> FreshTurn]
  /\ turns = 0
  /\ bookTally = [a \in TurnArgs |-> [s \in BOOLEAN |-> 0]]
  /\ last = NoCall
  /\ app \in {Unmounted(aistudio, apiKey) : aistudio \in BOOLEAN, apiKey \in ApiKeys}

\* The App: the user's clicks and sends, and the turns of its services.
NextApp ==
  \/ Mount
  \/ KeyCheckResolves
  \/ KeyCheckRejects
  \/ ClickSelectKey
  \/ SelectKeyResolves
  \/ SelectKeyRejects
  \/ HandleSend
  \/ \E c \in Convs :
       \/ ModelAnswers(c)
       \/ ModelRequestsTools(c)
       \/ CheckReturns(c)
       \/ BookReturns(c)
       \/ FollowupAnswers(c)
       \/ ModelCallFails(c)
       \/ AppResumes(c)

SpecApp == InitApp /\ [][NextApp]_vars

-----------------------------------------------------------------------------
(* Vocabulary of the properties *)

\* The slot (date, time, partySize) exists in db and its flag is true.
Open(db, date, time, partySize) ==
  /\ date \in DOMAIN db
  /\ time \in DOMAIN db[date]
  /\ partySize \in DOMAIN db[date][time]
  /\ db[date][time][partySize]

OpenAt(db, a) == Open(db, a.date, a.time, a.partySize)

\* The positions of the log that hold a record for the key a.
RecordsFor(a) ==
  {i \in 1..Len(bookings) : /\ bookings[i].date = a.date
                            /\ bookings[i].time = a.time
                            /\ bookings[i].partySize = a.partySize}

\* The result of the tool call of a turn whose tool has answered.
ToolResultOf(t) == t.toolResponses[Len(t.toolResponses)].toolResponse.result

\* Conversation c's turn has run book_table to its end.
BookedIn(c) ==
  /\ pc[c] \in {"awaitFollowup", "returned"}
  /\ turn[c].toolRuns = 1
  /\ turn[c].fc[1].name = "book_table"

\* The latest direct call was check_restaurant_availability.
Checked == last.tool = "check_restaurant_availability"

\* The seeded times of the queried date at most 30 minutes from the
\* requested time.
Nearby ==
  {t \in DOMAIN availability[last.date] :
     getTime(t) - getTime(last.time) \in -30..30}

\* Those of them whose flag for the requested party size is true.
NearbyOpen == {t \in Nearby : Open(availability, last.date, t, last.partySize)}

\* The times of a slot list, and the list as a set of entries.
Entries(slots) == {slots[i] : i \in 1..Len(slots)}

-----------------------------------------------------------------------------
(* Slot store: booking *)

\* C1: for every key seeded true, however the book_table calls of the
\* conversations on that key interleave: as soon as one of them has run to
\* its end exactly one of them has returned success:true, all the others
\* success:false, and the booking log holds exactly one record for the key
\* (and none before).
C1_ExactlyOneBookingWins ==
  \A a \in TurnArgs :
    OpenAt(SeedAvailability, a) =>
      /\ bookTally[a][TRUE] <= 1
      /\ (bookTally[a][TRUE] + bookTally[a][FALSE] >= 1 => bookTally[a][TRUE] = 1)
      /\ Cardinality(RecordsFor(a)) = bookTally[a][TRUE]

\* Two conversations were suspended in book_table's delay on the same key
\* seeded true at once; both have resumed, one won and the other lost.
C1_Witness ==
  \E c \in Convs, d \in Convs :
    /\ c # d
    /\ BookedIn(c) /\ BookedIn(d)
    /\ d \in turn[c].racing
    /\ turn[c].fc[1].args = turn[d].fc[1].args
    /\ OpenAt(SeedAvailability, turn[c].fc[1].args)
    /\ ToolResultOf(turn[c]).success
    /\ ~ToolResultOf(turn[d]).success
    /\ Cardinality(RecordsFor(turn[c].fc[1].args)) = 1

\* C2: in every step no flag goes from false to true, and a flag goes from
\* true to false only in a step in which a book_table call on exactly that
\* key resumes and returns success:true.
C2_FlagOnlyClearedByItsBooking ==
  [][ \A date \in DOMAIN availability :
        \A time \in DOMAIN availability[date] :
          \A partySize \in DOMAIN availability[date][time] :
            /\ ~availability[date][time][partySize]
                 => ~availability'[date][time][partySize]
            /\ (availability[date][time][partySize]
                  /\ ~availability'[date][time][partySize])
                 => \E c \in Convs :
                      /\ pc[c] = "awaitTool" /\ pc'[c] = "awaitFollowup"
                      /\ turn[c].fc[1].name = "book_table"
                      /\ turn[c].fc[1].args =
                           [date |-> date, time |-> time, partySize |-> partySize]
                      /\ ToolResultOf(turn'[c]).success ]_vars

\* A slot seeded true has been booked and a later book_table call on it, by
\* either conversation, was refused.
C2_Witness ==
  \E a \in TurnArgs :
    /\ OpenAt(SeedAvailability, a) /\ ~OpenAt(availability, a)
    /\ bookTally[a][TRUE] = 1
    /\ bookTally[a][FALSE] >= 1

\* C3: no two records of the booking log carry the same confirmation code.
C3_ConfirmationCodesUnique ==
  \A i \in 1..Len(bookings) : \A j \in 1..Len(bookings) :
    i # j => bookings[i].confirmation # bookings[j].confirmation

\* C4: a book_table call that resumes on a key that is not seeded (date, time
\* or party size) or whose flag is false returns success:false with no
\* confirmation number, the turn goes on to send that result to the Model
\* Client, no record is appended and no flag changes.
C4_RefusedBookingHasNoEffect ==
  [][ \A c \in Convs :
        ( /\ pc[c] = "awaitTool" /\ pc'[c] # "awaitTool"
          /\ turn[c].fc[1].name = "book_table"
          /\ ~OpenAt(availability, turn[c].fc[1].args) )
        => /\ pc'[c] = "awaitFollowup"
           /\ ToolResultOf(turn'[c]).success = FALSE
           /\ ToolResultOf(turn'[c]).confirmationNumber = Undefined
           /\ turn'[c].sent =
                <<[id |-> turn[c].fc[1].id, name |-> "book_table",
                   response |-> [result |-> ToolResultOf(turn'[c])]]>>
           /\ bookings' = bookings
           /\ availability' = availability ]_vars

\* book_table has been refused on an unseeded date, on an unseeded time or
\* party size of a seeded date, or on a flag that is false.
C4_Witness ==
  \E c \in Convs :
    /\ BookedIn(c)
    /\ ~ToolResultOf(turn[c]).success
    /\ ~OpenAt(SeedAvailability, turn[c].fc[1].args)
    /\ turn[c].fc[1].args.date \in DOMAIN availability
    /\ bookings = <<>>

-----------------------------------------------------------------------------
(* Slot store: availability *)

\* C5: when the requested slot's flag is true as check_restaurant_availability
\* reads the store, the result is available:true with a slot list of exactly
\* one entry: the requested time, marked available.
C5_OpenSlotAnsweredAlone ==
  (Checked /\ Open(availability, last.date, last.time, last.partySize))
    => /\ last.result.available = TRUE
       /\ last.result.availableSlots =
            Some(<<[time |-> last.time, isAvailable |-> TRUE]>>)

\* An open slot with open neighbours was checked after a booking.
C5_Witness ==
  /\ Checked
  /\ Open(availability, last.date, last.time, last.partySize)
  /\ NearbyOpen # {last.time}
  /\ bookings # <<>>
  /\ last.result.available

\* C6: when the requested slot is not available and another seeded time of
\* the date at most 30 minutes away is available for the party size, the
\* result is available:false with a non-empty slot list that ascends by
\* clock time, holds only times at most 30 minutes from the requested one,
\* and holds an entry marked available.
C6_NearbySlotsOffered ==
  ( /\ Checked
    /\ last.date \in DOMAIN availability
    /\ ~Open(availability, last.date, last.time, last.partySize)
    /\ NearbyOpen \ {last.time} # {} )
  => /\ last.result.available = FALSE
     /\ last.result.availableSlots # Undefined
     /\ LET slots == last.result.availableSlots[1]
        IN  /\ Len(slots) > 0
            /\ \A i \in 1..Len(slots) : \A j \in 1..Len(slots) :
                 i < j => getTime(slots[i].time) < getTime(slots[j].time)
            /\ \A i \in 1..Len(slots) :
                 getTime(slots[i].time) - getTime(last.time) \in -30..30
            /\ \E i \in 1..Len(slots) : slots[i].isAvailable

\* The spec's example: 19:30 for 2 on 2024-08-01 is answered 19:00 and 20:00,
\* each exactly 30 minutes away.
C6_Witness ==
  /\ Checked
  /\ last.date = "2024-08-01" /\ last.time = "19:30" /\ last.partySize = 2
  /\ last.result.availableSlots =
       Some(<<[time |-> "19:00", isAvailable |-> TRUE],
              [time |-> "20:00", isAvailable |-> TRUE]>>)

\* C7 as claimed: when the requested slot is unavailable and a nearby slot is
\* available, the slot list is the full candidate set: every seeded time at
\* most 30 minutes away, unavailable ones included, each with its own flag.
C7_AlternatesAreAllCandidates ==
  ( /\ Checked
    /\ last.date \in DOMAIN availability
    /\ ~Open(availability, last.date, last.time, last.partySize)
    /\ NearbyOpen # {} )
  => /\ last.result.availableSlots # Undefined
     /\ Entries(last.result.availableSlots[1]) =
          {[time |-> t,
            isAvailable |-> Open(availability, last.date, t, last.partySize)]
             : t \in Nearby}
     /\ Len(last.result.availableSlots[1]) = Cardinality(Nearby)

\* C7 amended: when the requested slot is unavailable and a nearby slot is
\* available, the slot list holds exactly the candidates that are available:
\* every seeded time at most 30 minutes away whose flag for the party size is
\* true, once each and marked available; unavailable candidates are left out.
C7_AlternatesAreOpenCandidates ==
  ( /\ Checked
    /\ last.date \in DOMAIN availability
    /\ ~Open(availability, last.date, last.time, last.partySize)
    /\ NearbyOpen # {} )
  => /\ last.result.availableSlots # Undefined
     /\ Entries(last.result.availableSlots[1]) =
          {[time |-> t, isAvailable |-> TRUE] : t \in NearbyOpen}
     /\ Len(last.result.availableSlots[1]) = Cardinality(NearbyOpen)

\* A check whose candidates include unavailable ones and available ones.
C7_Witness ==
  /\ Checked
  /\ last.date \in DOMAIN availability
  /\ ~Open(availability, last.date, last.time, last.partySize)
  /\ NearbyOpen # {}
  /\ NearbyOpen # Nearby
  /\ last.time \in Nearby
  /\ last.result.availableSlots # Undefined

\* C8: for a date with no seeded entries the result is available:false with
\* no slot list and the message that the date has no availability, for every
\* time and party size; for a seeded date on which no time at most 30 minutes
\* away is available for the party size the result is available:false with
\* no slot list.
C8_NoSlotListWhenNothingNearby ==
  /\ (Checked /\ last.date \notin DOMAIN availability)
       => last.result = [available |-> FALSE, availableSlots |-> Undefined,
                         message |-> "No availability found for this date."]
  /\ (Checked /\ last.date \in DOMAIN availability /\ NearbyOpen = {})
       => /\ last.result.available = FALSE
          /\ last.result.availableSlots = Undefined

\* A check on a seeded date where bookings have used up every nearby slot.
C8_Witness ==
  /\ Checked
  /\ last.date \in DOMAIN availability
  /\ Nearby # {}
  /\ NearbyOpen = {}
  /\ \E t \in Nearby : Open(SeedAvailability, last.date, t, last.partySize)
  /\ last.result.availableSlots = Undefined

-----------------------------------------------------------------------------
(* Turn loop *)

\* The trace entry of the first requested call of c's turn.
FirstCallEntry(c) ==
  [sender |-> "tool",
   functionCall |-> [name |-> turn[c].fc[1].name, args |-> turn[c].fc[1].args]]

\* C9 as claimed: when the first response carried k >= 2 tool calls, only the
\* first is executed and sent back, and the returned trace records all k.
C9_TraceRecordsEveryRequestedCall ==
  \A c \in Convs :
    ( /\ pc[c] = "returned"
      /\ turn[c].requested >= 2
      /\ turn[c].ret[1].functionCalls # Undefined )
    => /\ turn[c].toolRuns <= 1
       /\ Len(turn[c].sent) = 1
       /\ Len(turn[c].ret[1].functionCalls[1]) = turn[c].requested

\* C9 amended: when the first response carried k >= 2 tool calls, only the
\* first is executed and sent back (at most one handler run, one tool result,
\* one functionResponse, carrying the first call's id), and the trace holds
\* that first call alone: the other k-1 calls are not recorded; a turn that
\* returns its trace returns exactly this one.
C9_TraceRecordsFirstCallOnly ==
  \A c \in Convs :
    turn[c].requested >= 2
    => /\ turn[c].functionCalls = <<FirstCallEntry(c)>>
       /\ turn[c].toolRuns <= 1
       /\ Len(turn[c].toolResponses) <= 1
       /\ Len(turn[c].sent) <= 1
       /\ \A i \in 1..Len(turn[c].sent) : turn[c].sent[i].id = 1
       /\ (pc[c] = "returned" /\ turn[c].ret[1].functionCalls # Undefined)
            => /\ turn[c].ret[1].functionCalls = Some(<<FirstCallEntry(c)>>)
               /\ Len(turn[c].ret[1].toolResponses[1]) = 1
               /\ Len(turn[c].sent) = 1

\* A turn whose first response carried two calls has run a tool and returned.
C9_Witness ==
  \E c \in Convs :
    /\ pc[c] = "returned"
    /\ turn[c].requested >= 2
    /\ turn[c].toolRuns = 1
    /\ turn[c].ret[1].functionCalls # Undefined
    /\ Len(turn[c].ret[1].functionCalls[1]) = 1

\* C10: when the first tool call names no tool of the registry, no handler
\* runs, the recorded tool result is {error: 'Function X not found.'}, and
\* that payload is what is sent to the Model Client with the call's id and
\* name.
C10_UnknownToolReportedNotFound ==
  \A c \in Convs :
    ( /\ pc[c] \in {"awaitTool", "awaitFollowup", "returned"}
      /\ turn[c].fc # Undefined
      /\ turn[c].fc[1].name \notin {"check_restaurant_availability", "book_table"} )
    => /\ pc[c] # "awaitTool"
       /\ turn[c].toolRuns = 0
       /\ turn[c].toolResponses =
            <<[sender |-> "tool",
               toolResponse |->
                 [name |-> turn[c].fc[1].name,
                  result |-> [error |-> <<"Function ", turn[c].fc[1].name,
                                          " not found.">>]]]>>
       /\ turn[c].sent =
            <<[id |-> turn[c].fc[1].id, name |-> turn[c].fc[1].name,
               response |->
                 [result |-> [error |-> <<"Function ", turn[c].fc[1].name,
                                          " not found.">>]]]>>

-----------------------------------------------------------------------------
(* Orchestrator: final text, failures, trace *)

\* The first call of conversation c's turn names neither of the two tools.
UnknownToolRequested(c) ==
  /\ turn[c].fc # Undefined
  /\ turn[c].fc[1].name \notin toolFunctions

\* C11: every turn in which the model requested an unknown tool name ends
\* with a non-empty final text, whatever text the follow-up response has.
C11_UnknownToolTurnHasText ==
  \A c \in Convs :
    (pc[c] = "returned" /\ UnknownToolRequested(c))
    => turn[c].ret[1].text # <<>>

\* The tool call of conversation c's turn raised: it named one of the two
\* tools and carried no args.
ToolCallRaised(c) ==
  /\ turn[c].fc # Undefined
  /\ turn[c].fc[1].name \in toolFunctions
  /\ turn[c].fc[1].args = Undefined

\* The follow-up response of conversation c's turn arrived: the turn
\* returned the two traces with its text.
FollowupArrived(c) ==
  /\ pc[c] = "returned"
  /\ turn[c].modelCalls = 2
  /\ turn[c].ret[1].functionCalls # Undefined

\* C12: when a tool call raises, the failure is recorded as a tool result
\* {error: reason}, that result is sent to the Model Client, and the turn's
\* final text is the follow-up response's text.
C12_ToolFailureWrappedAndSent ==
  \A c \in Convs :
    (pc[c] = "returned" /\ ToolCallRaised(c))
    => /\ Len(turn[c].toolResponses) = 1
       /\ "error" \in DOMAIN ToolResultOf(turn[c])
       /\ Len(turn[c].sent) = 1
       /\ FollowupArrived(c)

\* The texts the catch block of sendMessage can return for a rejected
\* Model Client call.
CatchTexts == {CatchResult(message).text : message \in ErrorMessages}

\* C13: when a Model Client call rejects, on the initial request or on the
\* follow-up, the turn makes no further Model Client call, sendMessage
\* resolves (it does not raise), and what it resolves to carries one of the
\* catch block's texts, which is never empty.
C13_FailedModelCallEndsTurnWithText ==
  \A c \in Convs :
    turn[c].failedCall # 0
    => /\ pc[c] = "returned"
       /\ turn[c].modelCalls = turn[c].failedCall
       /\ turn[c].ret # Undefined
       /\ turn[c].ret[1].text \in CatchTexts
       /\ turn[c].ret[1].text # <<>>

\* Both failures have happened: one conversation's initial request was
\* rejected, the other's follow-up was rejected after its tool had run.
C13_Witness ==
  \E c, d \in Convs :
    /\ pc[c] = "returned" /\ turn[c].failedCall = 1
    /\ pc[d] = "returned" /\ turn[d].failedCall = 2 /\ turn[d].toolRuns = 1

\* sendMessage of conversation c is suspended at one of its awaits.
InTurn(c) == pc[c] \in {"awaitModel", "awaitTool", "awaitFollowup"}

\* sendMessage of conversation c has resolved to a value with a text.
Done(c) == pc[c] = "returned" /\ turn[c].ret # Undefined

\* C15: provided every Model Client call and every tool execution
\* eventually returns or fails, every turn that was started eventually
\* returns a final text, whichever calls fail.
C15_EveryTurnReturns ==
  \A c \in Convs : InTurn(c) ~> Done(c)

\* Turns have ended each way: after a rejected initial request, after a
\* rejected follow-up, after a tool call that raised, and after a follow-up
\* that arrived.
C15_Witness ==
  \E c, d \in Convs :
    /\ Done(c) /\ Done(d)
    /\ \/ turn[c].failedCall = 1 /\ turn[d].failedCall = 2
       \/ turn[c].failedCall = 0 /\ turn[c].modelCalls = 2 /\ ToolCallRaised(d)

\* C16: every turn in which a tool handler ran returns, with its final
\* text, a trace holding that tool call and its tool result, also when a
\* later step of the turn failed.
C16_ToolRunIsInReturnedTrace ==
  \A c \in Convs :
    (pc[c] = "returned" /\ turn[c].toolRuns = 1)
    => /\ turn[c].ret[1].functionCalls = Some(<<FirstCallEntry(c)>>)
       /\ turn[c].ret[1].toolResponses # Undefined
       /\ turn[c].ret[1].toolResponses[1] = turn[c].toolResponses
       /\ Len(turn[c].toolResponses) = 1

\* C19: in every turn at most one tool handler runs and at most two Model
\* Client calls are made; a follow-up response ends the turn with its text
\* as the final text, also when it carries tool calls of its own, and those
\* are not executed.
C19_OneToolRoundTripPerTurn ==
  \A c \in Convs :
    /\ turn[c].toolRuns <= 1
    /\ turn[c].modelCalls <= 2
    /\ turn[c].followupRequested > 0
         => /\ FollowupArrived(c)
            /\ turn[c].ret[1].text = TextOrEmpty(turn[c].responseText)
            /\ Len(turn[c].toolResponses) = 1
            /\ Len(turn[c].sent) = 1

\* A check_restaurant_availability turn has ended on a follow-up response
\* that carried a book_table call, and nothing was booked.
C19_Witness ==
  \E c \in Convs :
    /\ FollowupArrived(c)
    /\ turn[c].followupRequested = 1
    /\ turn[c].fc[1].name = "check_restaurant_availability"
    /\ turn[c].toolRuns = 1
    /\ turn[c].responseText = Some(<<"Your table is booked.">>)
    /\ bookings = <<>>

\* The first response of conversation c's turn carried no tool call, and
\* sendMessage returned on it.
AnsweredDirectly(c) ==
  /\ pc[c] = "returned"
  /\ turn[c].requested = 0
  /\ turn[c].failedCall = 0

\* C20 (the turn): when the first response carries no tool call, the turn
\* ends after exactly one Model Client call, with no handler run, an empty
\* trace, and the response's text as the final text.
C20_PlainAnswerTurn ==
  \A c \in Convs :
    AnsweredDirectly(c)
    => /\ turn[c].modelCalls = 1
       /\ turn[c].toolRuns = 0
       /\ turn[c].sent = <<>>
       /\ turn[c].ret[1].functionCalls = Some(<<>>)
       /\ turn[c].ret[1].toolResponses = Some(<<>>)
       /\ turn[c].ret[1].text = TextOrEmpty(turn[c].responseText)

\* C20: a turn whose first response carries no tool call ends as
\* C20_PlainAnswerTurn says, and the step that ends it leaves the slot store
\* (flags and booking log) as it was.
C20_PlainAnswerLeavesStore ==
  [][ \A c \in Convs :
        (pc[c] = "awaitModel" /\ AnsweredDirectly(c)')
        => /\ availability' = availability
           /\ bookings' = bookings
           /\ C20_PlainAnswerTurn' ]_vars

\* A conversation got a plain text answer while the store held a booking.
C20_Witness ==
  \E c \in Convs :
    /\ AnsweredDirectly(c)
    /\ turn[c].responseText = Some(<<"Your table is booked.">>)
    /\ turn[c].ret[1].text = <<"Your table is booked.">>
    /\ Len(bookings) = 1

-----------------------------------------------------------------------------
(* App: credentials and in-flight turns *)

\* The error of a rejected Model Client call is of the 'entity not found'
\* kind, in either spelling the code looks for.
EntityNotFound(message) ==
  \/ includes(message, "requested entity was not found")
  \/ includes(message, "Requested entity was not found.")

\* sendMessage of service c returned the catch block's text for an 'entity
\* not found' rejection.
EntityNotFoundReturned(c) ==
  /\ pc[c] = "returned"
  /\ turn[c].failedCall # 0
  /\ \E message \in ErrorMessages :
       /\ EntityNotFound(message)
       /\ turn[c].ret[1].text = CatchResult(message).text

\* C14: when a Model Client call fails with an 'entity not found' error,
\* App.sendMessage, on resuming, resets hasApiKey to false, so that the key
\* selection prompt is shown again.
C14_EntityNotFoundResetsKey ==
  [][ \A c \in Convs :
        (EntityNotFoundReturned(c) /\ app.inFlight[c] = 1 /\ app'.inFlight[c] = 0)
        => ~app'.hasApiKey ]_vars

\* C17: at most one sendMessage call is in flight per service at any time:
\* while App.sendMessage is suspended on a service's sendMessage, isLoading
\* is true, so handleSend dispatches nothing, and a service runs a turn
\* only while App.sendMessage awaits it.
C17_OneTurnInFlightPerService ==
  \A c \in Convs :
    /\ app.inFlight[c] <= 1
    /\ app.inFlight[c] = 1 => app.isLoading
    /\ app.inFlight[c] = 0 => pc[c] = "idle"

\* The second message of a run is being answered: its turn is suspended at
\* the follow-up request, after the first turn was answered and shown.
C17_Witness ==
  \E c \in Convs :
    /\ app.inFlight[c] = 1
    /\ app.isLoading
    /\ app.sends = 2
    /\ pc[c] = "awaitFollowup"
    /\ \E i \in 1..Len(app.messages) : app.messages[i].sender = "agent"

\* The last entry of the chat log is the 'not initialized' system message.
NotInitializedShown(a) ==
  /\ a.messages # <<>>
  /\ a.messages[Len(a.messages)] = [sender |-> "system", text |-> NotInitializedText]

\* C18: when process.env.API_KEY is not defined (or is empty), constructing
\* the service fails at construction: after every step
\* agentServiceRef.current is null, no service has been constructed, no turn
\* was started and no Model Client call was made; and a message sent then
\* only appends the 'not initialized' system message.
C18_NoKeyNoService ==
  [][ ~KeyPresent(app'.apiKey)
      => /\ app'.agentServiceRef = Undefined
         /\ app'.instances = {}
         /\ turns' = 0
         /\ \A c \in Convs : pc'[c] = "idle" /\ turn'[c].modelCalls = 0
         /\ \A c \in Convs : app'.inFlight[c] = 0
         /\ app'.sends > app.sends
              => /\ app'.messages = Append(app.messages,
                                           [sender |-> "system", text |-> NotInitializedText])
                 /\ app'.isLoading = app.isLoading
                 /\ app'.hasApiKey = app.hasApiKey
                 /\ UNCHANGED <<availability, bookings, pc, turn, turns>> ]_vars

\* Without a key the constructor has thrown, and a message sent afterwards
\* was answered with the 'not initialized' system message.
C18_Witness ==
  /\ app.apiKey = Undefined
  /\ app.initFailed
  /\ app.agentServiceRef = Undefined
  /\ app.sends >= 1
  /\ NotInitializedShown(app)

-----------------------------------------------------------------------------
(* Slot store: the booking log against the flags *)

\* Every key the seed holds, as a tool call names it.
SeededKeys ==
  {[date |-> date, time |-> time, partySize |-> partySize] :
     date \in Dates, time \in Times, partySize \in PartySizes}

\* Those of them the seed marks available.
SeededOpenKeys == {a \in SeededKeys : OpenAt(SeedAvailability, a)}

\* The keys seeded true whose flag is false now.
ClearedKeys == {a \in SeededOpenKeys : ~OpenAt(availability, a)}

\* The keys the records of the log name.
LoggedKeys ==
  {[date |-> bookings[i].date, time |-> bookings[i].time,
    partySize |-> bookings[i].partySize] : i \in 1..Len(bookings)}

\* The flags and the log agree, key by key.
LogMatchesFlags ==
  /\ LoggedKeys = ClearedKeys
  /\ \A a \in ClearedKeys : Cardinality(RecordsFor(a)) = 1

\* The log of the next state is the log of this one, with records appended.
LogOnlyAppended ==
  /\ Len(bookings') >= Len(bookings)
  /\ SubSeq(bookings', 1, Len(bookings)) = bookings

\* C21: in every reachable state the keys seeded true whose flag is now false
\* are exactly the keys the booking log records, each of them is recorded
\* exactly once, and every step leaves the records the log already holds as
\* they are, in place, adding new ones only at its end.
C21_LogAgreesWithFlags ==
  []LogMatchesFlags /\ [][LogOnlyAppended]_vars

\* Two slots seeded true have been booked, one after the other: the log
\* holds two records, one for each of the two keys whose flag was cleared.
C21_Witness ==
  /\ Len(bookings) = 2
  /\ Cardinality(ClearedKeys) = 2
  /\ \A a \in ClearedKeys : bookTally[a][TRUE] = 1

-----------------------------------------------------------------------------
(* Slot store: a booking against the calls around it *)

\* Conversation d's open turn holds a check_restaurant_availability result
\* that reported the key a available.
CheckedOpen(d, a) ==
  /\ pc[d] \in {"awaitFollowup", "returned"}
  /\ turn[d].toolRuns = 1
  /\ turn[d].fc[1].name = "check_restaurant_availability"
  /\ turn[d].fc[1].args = a
  /\ ToolResultOf(turn[d]).available

\* Conversation c's book_table on the key a returned success:true while d was
\* suspended in book_table's delay on the same key.
CommittedDuringDelayOf(d, a) ==
  \E c \in Convs \ {d} :
    /\ BookedIn(c)
    /\ turn[c].fc[1].args = a
    /\ ToolResultOf(turn[c]).success
    /\ d \in turn[c].racing

\* C22: in every step in which a book_table call resumes from its delay, the
\* success it returns is the flag of its key in the store at that step,
\* whatever the flag was when the call was issued: it is success:false when
\* another conversation's booking of the key committed while this call was
\* in its delay, and success:true when the flag is still true, even though
\* another conversation's check has reported the key available before.
C22_BookingDecidedAtCheckAndSet ==
  [][ \A d \in Convs :
        ( /\ pc[d] = "awaitTool" /\ pc'[d] # "awaitTool"
          /\ turn[d].fc[1].name = "book_table" )
        => LET a == turn[d].fc[1].args
           IN  /\ ToolResultOf(turn'[d]).success = OpenAt(availability, a)
               /\ CommittedDuringDelayOf(d, a)
                    => ~ToolResultOf(turn'[d]).success
               /\ (OpenAt(availability, a)
                     /\ \E c \in Convs \ {d} : CheckedOpen(c, a))
                    => /\ ToolResultOf(turn'[d]).success
                       /\ ~OpenAt(availability', a) ]_vars

\* Two book_table calls on a key seeded true were in their delay together;
\* the first to resume committed, and the other, issued while the flag was
\* still true, resumed afterwards and was refused.
C22_Witness ==
  \E d \in Convs :
    /\ BookedIn(d)
    /\ OpenAt(SeedAvailability, turn[d].fc[1].args)
    /\ CommittedDuringDelayOf(d, turn[d].fc[1].args)
    /\ ~ToolResultOf(turn[d]).success
    /\ ToolResultOf(turn[d]).confirmationNumber = Undefined
    /\ Len(bookings) = 1

-----------------------------------------------------------------------------
(* sendMessage: a booking whose follow-up request fails *)

\* Conversation c's turn booked a table and has returned from the catch
\* block, because the follow-up request to the Model Client was rejected.
BookedThenFollowupFailed(c) ==
  /\ pc[c] = "returned"
  /\ turn[c].toolRuns = 1
  /\ turn[c].fc[1].name = "book_table"
  /\ ToolResultOf(turn[c]).success
  /\ turn[c].failedCall = 2

\* C23: when book_table has returned success:true in a turn and the follow-up
\* Model Client call of that turn was rejected, the booking stands: the flag
\* of the key is false and the log holds the record with the confirmation
\* code book_table returned; and the result of the turn is one of the texts
\* of the catch block, built from the error message alone, with no trace of
\* the tool call, so nothing in it carries the confirmation code.
C23_FailedFollowupKeepsBooking ==
  \A c \in Convs :
    BookedThenFollowupFailed(c) =>
      LET a    == turn[c].fc[1].args
          code == ToolResultOf(turn[c]).confirmationNumber[1]
          ret  == turn[c].ret[1]
      IN  /\ ~OpenAt(availability, a)
          /\ \E i \in RecordsFor(a) : bookings[i].confirmation = code
          /\ ret.text \in CatchTexts
          /\ ret.functionCalls = Undefined
          /\ ret.toolResponses = Undefined

\* A slot seeded true was booked in a turn whose follow-up request then
\* failed with a network error.
C23_Witness ==
  \E c \in Convs :
    /\ BookedThenFollowupFailed(c)
    /\ OpenAt(SeedAvailability, turn[c].fc[1].args)
    /\ turn[c].ret[1] = CatchResult(<<"fetch failed">>)
    /\ Len(bookings) = 1

-----------------------------------------------------------------------------
(* Slot store: what a check leaves behind *)

\* C24: a step in which check_restaurant_availability runs, on any date, time
\* and party size and with any of its four results, leaves every
\* availability flag and the booking log as they were.
C24_CheckLeavesStoreAlone ==
  [][ (last' # last /\ last'.tool = "check_restaurant_availability")
        => /\ availability' = availability
           /\ bookings' = bookings ]_vars

\* A slot was booked and then checked: the check reported it unavailable and
\* offered open slots nearby, and the store still holds the one booking.
C24_Witness ==
  /\ Checked
  /\ RecordsFor(last) # {}
  /\ Len(bookings) = 1
  /\ ~last.result.available
  /\ last.result.availableSlots # Undefined
  /\ NearbyOpen # {}

-----------------------------------------------------------------------------
(* App: the loading flag *)

\* App.sendMessage is suspended on a service's sendMessage.
TurnInFlight == \E c \in Convs : app.inFlight[c] > 0

\* The step is App.sendMessage resuming from the service call of c.
ServiceCallSettles(c) == app'.inFlight[c] < app.inFlight[c]

\* C25: isLoading is true exactly while App.sendMessage is suspended on a
\* service's sendMessage: the step that sets it starts that call, and the
\* step in which the call settles, with a response or with a rejection, sets
\* it back to false, after which handleSend, where ChatInput is rendered,
\* accepts a non-blank input again.
C25_LoadingOnlyWhileTurnInFlight ==
  /\ [](app.isLoading <=> TurnInFlight)
  /\ [][ /\ (~app.isLoading /\ app'.isLoading)
              => \E c \in Convs : /\ app'.inFlight[c] = app.inFlight[c] + 1
                                  /\ pc'[c] = "awaitModel"
         /\ \A c \in Convs :
              ServiceCallSettles(c)
                => /\ app.isLoading
                   /\ ~app'.isLoading
                   /\ CanSend(<<" ", "h", "i", " ">>, app'.isLoading) ]_vars

\* Two messages were sent and both turns have settled, the second with a
\* text and no trace (a plain answer, or the text of the service's catch
\* block): the flag is false again, after having been set and reset twice.
C25_Witness ==
  /\ app.sends = 2
  /\ turns = 2
  /\ ~app.isLoading
  /\ ~TurnInFlight
  /\ Len(app.messages) >= 4
  /\ app.messages[Len(app.messages)] = [sender |-> "agent", kind |-> "text"]
  /\ app.messages[Len(app.messages) - 1].sender = "user"

====
